---- MODULE Spec2Model ----
(***************************************************************************)
(* A model of FsDatastore (src/index.js): a key-value store whose keys are *)
(* slash-delimited strings mapped onto files below a root directory.       *)
(*                                                                         *)
(* Strings are TLA+ strings handled with Len, SubSeq and \o, so that the   *)
(* path arithmetic of _encode, _decode and _all is computed as the code    *)
(* computes it.  The file system is a set of directories and a function    *)
(* from file paths to byte sequences.  Every asynchronous operation is a   *)
(* call step followed by one step per file-system access, so that the      *)
(* operations of two callers interleave at the awaits of the code.         *)
(***************************************************************************)
EXTENDS Integers, Sequences, FiniteSets, TLC

(***************************************************************************)
(* Bounds of the model.                                                    *)
(***************************************************************************)
MaxOps == 2          \* operations invoked in one behaviour
MaxLen == 2          \* length of a value in bytes
MaxSegs == 2         \* number of segments of a key given to the codec

(***************************************************************************)
(* String helpers (JavaScript String and Array methods used by the code).  *)
(***************************************************************************)
Ch(s, i) == SubSeq(s, i, i)

\* String.prototype.slice(from) with a non-negative from (0-based)
SliceFrom(s, from) == SubSeq(s, from + 1, Len(s))

\* String.prototype.slice(from, -n): drops the first from and the last n characters
SliceTo(s, from, n) == SubSeq(s, from + 1, Len(s) - n)

\* String.prototype.lastIndexOf(c), 1-based, 0 when c does not occur
LastIndexOf(s, c) ==
    LET idx == { i \in 1..Len(s) : Ch(s, i) = c }
    IN  IF idx = {} THEN 0 ELSE CHOOSE i \in idx : \A j \in idx : j <= i

StartsWith(s, p) == Len(p) <= Len(s) /\ SubSeq(s, 1, Len(p)) = p

EndsWith(s, p) == Len(p) <= Len(s) /\ SubSeq(s, Len(s) - Len(p) + 1, Len(s)) = p

\* String.prototype.split(sep) for a one-character separator
RECURSIVE Split(_, _)
Split(s, sep) ==
    LET idx == { i \in 1..Len(s) : Ch(s, i) = sep }
    IN  IF idx = {} THEN << s >>
        ELSE LET i == CHOOSE j \in idx : \A l \in idx : j <= l
             IN  << SubSeq(s, 1, i - 1) >> \o Split(SubSeq(s, i + 1, Len(s)), sep)

\* Array.prototype.join(sep)
RECURSIVE Join(_, _)
Join(parts, sep) ==
    IF Len(parts) = 0 THEN ""
    ELSE IF Len(parts) = 1 THEN parts[1]
    ELSE parts[1] \o sep \o Join(Tail(parts), sep)

(***************************************************************************)
(* path (POSIX flavour): sep, normalize, join, extname.                    *)
(***************************************************************************)
sep == "/"

\* path.normalize restricted to what sanitized keys need: runs of
\* separators collapse to one, a trailing separator is preserved
RECURSIVE Normalize(_)
Normalize(s) ==
    IF Len(s) < 2 THEN s
    ELSE IF Ch(s, 1) = sep /\ Ch(s, 2) = sep THEN Normalize(SliceFrom(s, 1))
    ELSE Ch(s, 1) \o Normalize(SliceFrom(s, 1))

\* path.join(a, b): the non-empty arguments joined by sep, then normalized
PathJoin(a, b) ==
    IF a = "" THEN Normalize(b)
    ELSE IF b = "" THEN Normalize(a)
    ELSE Normalize(a \o sep \o b)

\* path.basename for a path without trailing separator
Basename(p) == SliceFrom(p, LastIndexOf(p, sep))

\* path.extname: from the last dot of the basename, '' when there is no
\* dot or the only dot is the first character of the basename
Extname(p) ==
    LET b == Basename(p)
        d == LastIndexOf(b, ".")
    IN  IF d <= 1 THEN "" ELSE SliceFrom(b, d - 1)

(***************************************************************************)
(* interface-datastore Key, as far as the code uses it.                    *)
(***************************************************************************)
\* new Key(s): Key.clean() gives the string a leading '/' and strips a
\* trailing one
KeyOf(s) ==
    LET a == IF s = "" THEN "/" ELSE IF Ch(s, 1) # "/" THEN "/" \o s ELSE s
    IN  IF Len(a) > 1 /\ Ch(a, Len(a)) = "/" THEN SubSeq(a, 1, Len(a) - 1) ELSE a

\* key.parent().toString(): all segments but the last, '/' for a key of
\* one segment
KeyParent(k) ==
    LET list == Tail(Split(k, "/"))
    IN  IF Len(list) = 1 THEN "/"
        ELSE KeyOf(Join(SubSeq(list, 1, Len(list) - 1), "/"))

(***************************************************************************)
(* Configuration set by the constructor.                                   *)
(***************************************************************************)
\* this.path
root == "/r"

\* this.opts.extension
extension == ".data"

(***************************************************************************)
(* Path codec.                                                             *)
(***************************************************************************)
_encode(key) ==
    LET parent == KeyParent(key)
        dir    == PathJoin(root, parent)
        name   == SliceFrom(key, Len(parent))
        file   == PathJoin(dir, name \o extension)
    IN  [dir |-> dir, file |-> file]

\* the decoded key, or the marker InvalidExtension where the code throws
InvalidExtension == "!Invalid extension"

_decode(file) ==
    IF Extname(file) # extension THEN InvalidExtension
    ELSE KeyOf(Join(Split(SliceTo(file, Len(root), Len(extension)), sep), "/"))

(***************************************************************************)
(* Inputs of the operations.                                               *)
(***************************************************************************)
Procs == {"p1", "p2"}

\* the keys of the model: the root key, keys of one, two and three
\* segments, siblings below a common parent, and a key with a segment that
\* ends in the extension
AllKeys == {"/", "/a", "/b", "/a/b", "/a/c", "/a/b/c", "/a.data/b"}

\* keys passed to put, get, has and delete by the callers of Spec
Keys == {"/", "/a/b"}

\* keys passed to put and delete while queries run (SpecQuery)
QueryKeys == {"/a/c"}

\* keys passed to putRaw and getRaw
RawKeys == {"/a"}

\* q.prefix of a query; "" stands for a query without prefix
Prefixes == {"", "/a"}

Bytes == {1}

Values == UNION { [1..n -> Bytes] : n \in 0..MaxLen }

InitVal == << 1 >>

\* fs.constants: the access modes of fs.access
F_OK == 0

R_OK == 4

W_OK == 2

\* the constructor's defaults
DefaultOpts == [createIfMissing |-> TRUE, errorIfExists |-> FALSE]

AllOpts == [createIfMissing : BOOLEAN, errorIfExists : BOOLEAN]

\* stores a behaviour starts from: whether the root exists, the keys that
\* earlier put calls left present (each holding InitVal) and the keys whose
\* extension-less file earlier putRaw calls left; and the keys at whose
\* path another program left a file (foreign), with the access this file
\* grants
NoRoot == [root |-> FALSE, keys |-> {}, raw |-> {}, foreign |-> {}, access |-> {}]

EmptyStore == [root |-> TRUE, keys |-> {}, raw |-> {}, foreign |-> {}, access |-> {}]

Stores ==
    { [root |-> TRUE, keys |-> {"/", "/a/b"}, raw |-> {}, foreign |-> {}, access |-> {}],
      [root |-> TRUE, keys |-> {}, raw |-> {"/a"}, foreign |-> {}, access |-> {}] }

QueryStores ==
    { [root |-> TRUE, keys |-> {"/a/b", "/a/c", "/b"}, raw |-> {"/b"},
       foreign |-> {}, access |-> {}],
      [root |-> TRUE, keys |-> {"/", "/a", "/a/b/c"}, raw |-> {},
       foreign |-> {}, access |-> {}] }

\* stores of SpecRaw: the directory of the children of the raw key exists;
\* both artifacts of the raw key exist; another program left the file of
\* the key, write-only or read-only
RawStores ==
    { [root |-> TRUE, keys |-> {"/a/b"}, raw |-> {}, foreign |-> {}, access |-> {}],
      [root |-> TRUE, keys |-> {"/a"}, raw |-> {"/a"}, foreign |-> {}, access |-> {}],
      [root |-> TRUE, keys |-> {}, raw |-> {}, foreign |-> {"/a"}, access |-> {W_OK}],
      [root |-> TRUE, keys |-> {}, raw |-> {}, foreign |-> {"/a"}, access |-> {R_OK}] }

(***************************************************************************)
(* State.                                                                  *)
(***************************************************************************)
VARIABLES
    dirs,      \* file system: the directories that exist ("/" always does)
    files,     \* file system: path of each existing file -> its bytes
    mode,      \* file system: path of each existing file -> the access its
               \* permissions grant (a set of R_OK, W_OK)
    opts,      \* this.opts: createIfMissing, errorIfExists
    pc,        \* per caller: the file-system call its operation waits for
    call,      \* per caller: the operation in progress and its arguments
    iter,      \* per caller: the query generator: files left, entries yielded
    ret,       \* per caller: the outcome of its last completed operation
    nops,      \* history: number of operations invoked
    win,       \* history, per key: the put and delete calls of the current
               \* or last period during which such calls were in progress
    written    \* history, per key: the values put calls were given

vars == << dirs, files, mode, opts, pc, call, iter, ret, nops, win, written >>

(***************************************************************************)
(* File-system primitives.                                                 *)
(***************************************************************************)
\* the path without a trailing separator
Resolve(p) == IF Len(p) > 1 /\ Ch(p, Len(p)) = sep THEN SubSeq(p, 1, Len(p) - 1) ELSE p

IsDir(p) == Resolve(p) = "/" \/ Resolve(p) \in dirs

IsFile(p) == p \in DOMAIN files

Exists(p) == IsDir(p) \/ IsFile(p)

\* the directories above the path p
Ancestors(p) == { SubSeq(p, 1, i - 1) : i \in { j \in 2..Len(p) : Ch(p, j) = sep } }

\* a component of the path p is a regular file (ENOTDIR)
NotDir(p) == \E a \in Ancestors(p) : IsFile(a)

\* mkdirp: the directories it has to make sure of, and whether it can
MkdirpNeeds(dir) == Ancestors(Resolve(dir)) \cup ({Resolve(dir)} \ {"/"})

MkdirpOk(dir) == \A d \in MkdirpNeeds(dir) : ~IsFile(d)

\* a write that goes to the target itself, without a temporary file
TmpName_InPlace(path, p) == path

\* fast-write-atomic: the temporary file of a write by caller p
TmpName(path, p) == path \o "." \o p

\* the bits of a mode, and the bitwise or of two modes
Bits(n) == { b \in {1, 2, 4} : (n \div b) % 2 = 1 }

RECURSIVE SumOf(_)
SumOf(S) == IF S = {} THEN 0 ELSE LET b == CHOOSE x \in S : TRUE IN b + SumOf(S \ {b})

BitOr(a, b) == SumOf(Bits(a) \cup Bits(b))

\* the access a file created by the store grants
DefaultMode == {R_OK, W_OK}

\* the access the path grants: a file's permissions, anything on a directory
Granted(p) == IF IsFile(p) THEN mode[p] ELSE {1, 2, 4}

\* fs.access(path, m): the path exists and grants every bit of m
Access(p, m) == Exists(p) /\ Bits(m) \subseteq Granted(p)

\* fs.readFile succeeds on an existing regular file that may be read
CanRead(p) == IsFile(p) /\ R_OK \in mode[p]

\* a function without the argument a
Without(f, a) == [ y \in DOMAIN f \ {a} |-> f[y] ]

(***************************************************************************)
(* glob.sync(pattern): the existing paths that match the pattern.  A       *)
(* pattern segment is a literal, "**" (any number of directories) or       *)
(* "*" followed by a literal suffix; wildcards do not match a leading dot. *)
(***************************************************************************)
SegMatch(pat, name) ==
    IF StartsWith(pat, "*")
    THEN EndsWith(name, SliceFrom(pat, 1)) /\ ~StartsWith(name, ".")
    ELSE pat = name

RECURSIVE GlobMatch(_, _)
GlobMatch(pat, path) ==
    IF Len(pat) = 0 THEN Len(path) = 0
    ELSE IF Head(pat) = "**"
    THEN \/ GlobMatch(Tail(pat), path)
         \/ /\ Len(path) > 0
            /\ ~StartsWith(Head(path), ".")
            /\ GlobMatch(pat, Tail(path))
    ELSE /\ Len(path) > 0
         /\ SegMatch(Head(pat), Head(path))
         /\ GlobMatch(Tail(pat), Tail(path))

\* the order of glob's result
Alphabet == "./0123456789abcdefghijklmnopqrstuvwxyz"

CharRank(c) == CHOOSE i \in 1..Len(Alphabet) : Ch(Alphabet, i) = c

RECURSIVE Before(_, _)
Before(a, b) ==
    IF Len(a) = 0 THEN Len(b) > 0
    ELSE IF Len(b) = 0 THEN FALSE
    ELSE IF Ch(a, 1) = Ch(b, 1) THEN Before(SliceFrom(a, 1), SliceFrom(b, 1))
    ELSE CharRank(Ch(a, 1)) < CharRank(Ch(b, 1))

RECURSIVE Sorted(_)
Sorted(S) ==
    IF S = {} THEN << >>
    ELSE LET first == CHOOSE a \in S : \A b \in S \ {a} : Before(a, b)
         IN  << first >> \o Sorted(S \ {first})

Glob(pattern) ==
    Sorted({ f \in (DOMAIN files) \cup dirs :
                GlobMatch(Split(pattern, "/"), Split(f, "/")) })

\* the pattern _all builds for q.prefix
Pattern(qprefix) ==
    LET prefix == IF qprefix = "" THEN "**" ELSE qprefix
    IN  Join(Split(PathJoin(PathJoin(root, prefix), "*" \o extension), sep), "/")

\* the paths of the keys of the model, computed once
Enc == [ k \in AllKeys |-> _encode(k) ]

\* the keys of the files of the model, computed once
Dec == [ f \in { Enc[k].file : k \in AllKeys } |-> _decode(f) ]

\* _decode(f), looked up where it was computed
Decoded(f) == IF f \in DOMAIN Dec THEN Dec[f] ELSE _decode(f)

\* the file putRaw and getRaw work on
RawFile(key) == SliceTo(Enc[key].file, 0, Len(extension))

\* glob.sync for the paths that the keys of the model give rise to (their
\* files with and without the extension, the temporary files of their
\* writes, their directories), computed once: which of them match the
\* pattern of a prefix, and their order
KnownPaths ==
    UNION { {Enc[k].file, RawFile(k), Resolve(Enc[k].dir)}
               \cup { TmpName(Enc[k].file, p) : p \in Procs }
               \cup { TmpName(RawFile(k), p) : p \in Procs } : k \in AllKeys }

MatchTable ==
    [ q \in Prefixes |->
        { f \in KnownPaths : GlobMatch(Split(Pattern(q), "/"), Split(f, "/")) } ]

Order == Sorted(KnownPaths)

\* Glob(Pattern(qprefix)), looked up where it was computed
GlobOf(qprefix) ==
    IF (DOMAIN files) \cup dirs \subseteq KnownPaths
    THEN LET Found(f) == f \in MatchTable[qprefix] /\ (f \in DOMAIN files \/ f \in dirs)
         IN  SelectSeq(Order, Found)
    ELSE Glob(Pattern(qprefix))

\* the file a write in progress targets
Target(c) == IF c.op = "putRaw" THEN RawFile(c.key) ELSE Enc[c.key].file

(***************************************************************************)
(* History bookkeeping.                                                    *)
(***************************************************************************)
\* atcall is history: the files that match the pattern when query is called
NoCall == [op |-> "none", key |-> "", val |-> << >>, prefix |-> "", keysOnly |-> FALSE,
           atcall |-> << >>]

\* reads is history: the number of fsReadFile calls of the query
NoIter == [files |-> << >>, out |-> << >>, clean |-> TRUE, reads |-> 0]

\* status is "ok" or the error that reaches the caller, cause the error that
\* the file system gave
NoRet == [op |-> "none", key |-> "", status |-> "none", cause |-> "none",
          val |-> << >>, found |-> FALSE, out |-> << >>, clean |-> TRUE,
          reads |-> 0, pre |-> "none", vals |-> {}, seq |-> 0]

NeverWin == [st |-> "never", ops |-> {}, vals |-> {}, n |-> 0, ok |-> TRUE]

\* the history of the extension-less file of key k is kept under RawTag(k)
RawTag(k) == "raw:" \o k

\* the history entry a put or putRaw call belongs to
WinKey(c) == IF c.op = "putRaw" THEN RawTag(c.key) ELSE c.key

\* the other callers with a write of the same file in progress (get, has
\* and delete are a single file-system call); k is a key or a RawTag
InFlight(p, k) ==
    { q \in Procs \ {p} : call[q].op \in {"put", "putRaw"} /\ WinKey(call[q]) = k }

\* what a caller can tell about key k from the calls that completed:
\* "never" (no put or delete yet), "put" or "deleted" (the last period of
\* activity was one successful call on its own), "unknown" otherwise
Settled(k) ==
    IF win[k].st = "never" THEN "never"
    ELSE IF win[k].st = "done" /\ win[k].n = 1 /\ win[k].ok
    THEN (IF win[k].ops \subseteq {"put", "putRaw"} THEN "put" ELSE "deleted")
    ELSE "unknown"

\* a put or delete of key k by caller p begins
WinCall(p, op, k, vs) ==
    IF InFlight(p, k) = {}
    THEN [st |-> "busy", ops |-> {op}, vals |-> vs, n |-> 1, ok |-> TRUE]
    ELSE [st |-> "busy", ops |-> win[k].ops \cup {op}, vals |-> win[k].vals \cup vs,
          n |-> win[k].n + 1, ok |-> win[k].ok]

\* a put or delete of key k by caller p ends
WinReturn(p, k, w, success) ==
    [w EXCEPT !.st = IF InFlight(p, k) = {} THEN "done" ELSE "busy",
              !.ok = @ /\ success]

\* a step that changes a file of the store ends the undisturbed run of
\* every query in progress
Disturb(p) ==
    [ q \in Procs |-> IF q # p /\ pc[q] = "next"
                      THEN [iter[q] EXCEPT !.clean = FALSE]
                      ELSE iter[q] ]

(***************************************************************************)
(* Initial states.                                                         *)
(***************************************************************************)
StoreFiles(store) ==
    { Enc[k].file : k \in store.keys \cup store.foreign } \cup { RawFile(k) : k \in store.raw }

StoreDirs(store) ==
    IF store.root
    THEN {root} \cup UNION { MkdirpNeeds(Enc[k].dir) :
                                k \in store.keys \cup store.raw \cup store.foreign }
    ELSE {}

InitWith(store, o) ==
    /\ opts = o
    /\ files = [ f \in StoreFiles(store) |-> InitVal ]
    /\ mode = [ f \in StoreFiles(store) |->
                 IF f \in { Enc[k].file : k \in store.foreign }
                 THEN store.access ELSE DefaultMode ]
    /\ dirs = StoreDirs(store)
    /\ win = [ k \in AllKeys \cup { RawTag(r) : r \in RawKeys } |->
                 IF k \in store.keys
                 THEN [st |-> "done", ops |-> {"put"}, vals |-> {InitVal},
                       n |-> 1, ok |-> TRUE]
                 ELSE IF k \in { RawTag(r) : r \in store.raw }
                 THEN [st |-> "done", ops |-> {"putRaw"}, vals |-> {InitVal},
                       n |-> 1, ok |-> TRUE]
                 ELSE NeverWin ]
    /\ written = [ k \in AllKeys |-> IF k \in store.keys THEN {InitVal} ELSE {} ]
    /\ pc = [ p \in Procs |-> "idle" ]
    /\ call = [ p \in Procs |-> NoCall ]
    /\ iter = [ p \in Procs |-> NoIter ]
    /\ ret = [ p \in Procs |-> NoRet ]
    /\ nops = 0

\* any options on a store without keys, the default options on the others
Init ==
    \/ \E store \in {NoRoot, EmptyStore}, o \in AllOpts : InitWith(store, o)
    \/ \E store \in Stores : InitWith(store, DefaultOpts)

InitQuery ==
    \E store \in {EmptyStore} \cup QueryStores : InitWith(store, DefaultOpts)

InitRaw ==
    \E store \in {EmptyStore} \cup RawStores : InitWith(store, DefaultOpts)

(***************************************************************************)
(* Calls and returns.                                                      *)
(***************************************************************************)
\* caller p may call an operation
CanCall(p) == pc[p] = "idle" /\ nops < MaxOps

\* the outcome r of operation op on key k; n numbers the outcomes
Outcome(op, k, r, n) == [r EXCEPT !.op = op, !.key = k, !.seq = n]

\* an operation that is one file-system call: it is called and returns
Atomic(p, op, k, r) ==
    /\ CanCall(p)
    /\ nops' = nops + 1
    /\ ret' = [ret EXCEPT ![p] = Outcome(op, k, r, nops + 1)]
    /\ UNCHANGED << pc, call, opts >>

\* an operation of several file-system calls is called
Invoke(p, c, first) ==
    /\ CanCall(p)
    /\ nops' = nops + 1
    /\ pc' = [pc EXCEPT ![p] = first]
    /\ call' = [call EXCEPT ![p] = c]
    /\ ret' = [ret EXCEPT ![p] = NoRet]
    /\ UNCHANGED opts

\* an operation of several file-system calls returns or throws
Return(p, r) ==
    /\ pc' = [pc EXCEPT ![p] = "idle"]
    /\ call' = [call EXCEPT ![p] = NoCall]
    /\ ret' = [ret EXCEPT ![p] = Outcome(call[p].op, call[p].key, r, nops)]
    /\ win' = IF call[p].op \in {"put", "putRaw"}
              THEN [win EXCEPT ![WinKey(call[p])] =
                       WinReturn(p, WinKey(call[p]), @, r.status = "ok")]
              ELSE win
    /\ UNCHANGED << nops, written, opts >>

\* a step inside an operation of several file-system calls
Goto(p, label) ==
    /\ pc' = [pc EXCEPT ![p] = label]
    /\ UNCHANGED << call, ret, nops, win, written, opts >>

(***************************************************************************)
(* open                                                                    *)
(***************************************************************************)
\* an open that creates a missing root whatever createIfMissing says
open_AlwaysCreates(p) ==
    /\ IF ~Exists(root)
       THEN /\ dirs' = dirs \cup MkdirpNeeds(root)
            /\ Atomic(p, "open", "", [NoRet EXCEPT !.status = "ok"])
       ELSE IF opts.errorIfExists
            THEN /\ dirs' = dirs
                 /\ Atomic(p, "open", "", [NoRet EXCEPT !.status = "DBOpenFailed", !.found = TRUE])
            ELSE /\ dirs' = dirs
                 /\ Atomic(p, "open", "", [NoRet EXCEPT !.status = "ok", !.found = TRUE])
    /\ UNCHANGED << files, mode, iter, win, written >>

open(p) ==
    /\ IF ~Exists(root)
       THEN IF opts.createIfMissing
            THEN /\ dirs' = dirs \cup MkdirpNeeds(root)
                 /\ Atomic(p, "open", "", [NoRet EXCEPT !.status = "ok"])
            ELSE /\ dirs' = dirs
                 /\ Atomic(p, "open", "", [NoRet EXCEPT !.status = "NotFound"])
       ELSE IF opts.errorIfExists
            THEN /\ dirs' = dirs
                 /\ Atomic(p, "open", "", [NoRet EXCEPT !.status = "DBOpenFailed", !.found = TRUE])
            ELSE /\ dirs' = dirs
                 /\ Atomic(p, "open", "", [NoRet EXCEPT !.status = "ok", !.found = TRUE])
    /\ UNCHANGED << files, mode, iter, win, written >>

(***************************************************************************)
(* put and putRaw: mkdirp, then writeFile, which is fast-write-atomic      *)
(* (write a temporary file, rename it) and the handling of EPERM.          *)
(***************************************************************************)
\* an error leaves the write as the file system gave it
Throw_Raw(p, code) ==
    Return(p, [NoRet EXCEPT !.status = code, !.cause = code])

\* an error leaves the write: put wraps it, putRaw lets it through
Throw(p, code) ==
    Return(p, [NoRet EXCEPT !.status = IF call[p].op = "put" THEN "WriteFailed" ELSE code,
                            !.cause = code])

put(p, K) ==
    \E k \in K, v \in Values :
        /\ Invoke(p, [NoCall EXCEPT !.op = "put", !.key = k, !.val = v], "mkdirp")
        /\ win' = [win EXCEPT ![k] = WinCall(p, "put", k, {v})]
        /\ written' = [written EXCEPT ![k] = @ \cup {v}]
        /\ UNCHANGED << dirs, files, mode, iter >>

putRaw(p, K) ==
    \E k \in K, v \in Values :
        /\ Invoke(p, [NoCall EXCEPT !.op = "putRaw", !.key = k, !.val = v], "mkdirp")
        /\ win' = [win EXCEPT ![RawTag(k)] = WinCall(p, "putRaw", RawTag(k), {v})]
        /\ UNCHANGED << dirs, files, mode, iter, written >>

mkdirp(p) ==
    /\ pc[p] = "mkdirp"
    /\ LET dir == Enc[call[p].key].dir
       IN  IF MkdirpOk(dir)
           THEN /\ dirs' = dirs \cup MkdirpNeeds(dir)
                /\ Goto(p, "tmpopen")
           ELSE /\ dirs' = dirs
                /\ Throw(p, "EEXIST")
    /\ UNCHANGED << files, mode, iter >>

\* writeAtomic: the temporary file is created empty
tmpopen(p) ==
    /\ pc[p] = "tmpopen"
    /\ files' = (TmpName(Target(call[p]), p) :> << >>) @@ files
    /\ mode' = (TmpName(Target(call[p]), p) :> DefaultMode) @@ mode
    /\ Goto(p, IF call[p].val = << >> THEN "rename" ELSE "tmpwrite")
    /\ UNCHANGED << dirs, iter >>

\* writeAtomic: the next byte of the value goes to the temporary file
tmpwrite(p) ==
    /\ pc[p] = "tmpwrite"
    /\ LET tmp  == TmpName(Target(call[p]), p)
           done == Len(files[tmp])
       IN  /\ files' = [files EXCEPT ![tmp] = Append(@, call[p].val[done + 1])]
           /\ Goto(p, IF done + 1 = Len(call[p].val) THEN "rename" ELSE "tmpwrite")
    /\ UNCHANGED << dirs, mode, iter >>

\* a rename that shows the new file to the queries in progress
rename_LiveView(p) ==
    /\ pc[p] = "rename"
    /\ LET target == Target(call[p])
           tmp    == TmpName(target, p)
       IN  \/ /\ ~IsDir(target)
              /\ files' = (target :> files[tmp]) @@ Without(files, tmp)
              /\ mode' = (target :> mode[tmp]) @@ Without(mode, tmp)
              /\ iter' = [ q \in Procs |->
                             IF q # p /\ pc[q] = "next"
                             THEN [iter[q] EXCEPT !.files = Append(@, target), !.clean = FALSE]
                             ELSE iter[q] ]
              /\ Return(p, [NoRet EXCEPT !.status = "ok"])
           \/ /\ Exists(target)
              /\ files' = Without(files, tmp)
              /\ mode' = Without(mode, tmp)
              /\ iter' = iter
              /\ Goto(p, "fsAccess")
           \/ /\ IsDir(target)
              /\ files' = Without(files, tmp)
              /\ mode' = Without(mode, tmp)
              /\ iter' = iter
              /\ Throw(p, "EISDIR")
    /\ UNCHANGED dirs

\* writeAtomic: the temporary file is renamed onto the target.  The rename
\* replaces the target; where the target exists it can instead fail with
\* EPERM (lines 25-27), and it fails where the target is a directory.  The
\* temporary file is removed when the rename fails.
rename(p) ==
    /\ pc[p] = "rename"
    /\ LET target == Target(call[p])
           tmp    == TmpName(target, p)
       IN  \/ /\ ~IsDir(target)
              /\ files' = (target :> files[tmp]) @@ Without(files, tmp)
              /\ mode' = (target :> mode[tmp]) @@ Without(mode, tmp)
              /\ iter' = Disturb(p)
              /\ Return(p, [NoRet EXCEPT !.status = "ok"])
           \/ /\ Exists(target)
              /\ files' = Without(files, tmp)
              /\ mode' = Without(mode, tmp)
              /\ iter' = iter
              /\ Goto(p, "fsAccess")
           \/ /\ IsDir(target)
              /\ files' = Without(files, tmp)
              /\ mode' = Without(mode, tmp)
              /\ iter' = iter
              /\ Throw(p, "EISDIR")
    /\ UNCHANGED dirs

\* writeFile after EPERM: fsAccess(path, F_OK | W_OK), then return
fsAccess(p) ==
    /\ pc[p] = "fsAccess"
    /\ IF Access(Target(call[p]), BitOr(F_OK, W_OK))
       THEN Return(p, [NoRet EXCEPT !.status = "ok"])
       ELSE Throw(p, IF Exists(Target(call[p])) THEN "EACCES" ELSE "ENOENT")
    /\ UNCHANGED << dirs, files, mode, iter >>

(***************************************************************************)
(* get and getRaw                                                          *)
(***************************************************************************)
\* a read whose failure is swallowed: an empty value is returned
ReadOutcome_Swallow(file) ==
    IF CanRead(file)
    THEN [NoRet EXCEPT !.status = "ok", !.val = files[file]]
    ELSE [NoRet EXCEPT !.status = "ok"]

\* fsReadFile(file): the bytes, or the error wrapped by notFoundError
ReadOutcome(file) ==
    IF CanRead(file)
    THEN [NoRet EXCEPT !.status = "ok", !.val = files[file]]
    ELSE [NoRet EXCEPT !.status = "NotFound"]

\* history: what the completed calls tell about key k when r is produced
Knowing(r, k) == [r EXCEPT !.pre = Settled(k), !.vals = win[k].vals]

get(p, K) ==
    /\ \E k \in K : Atomic(p, "get", k, Knowing(ReadOutcome(Enc[k].file), k))
    /\ UNCHANGED << dirs, files, mode, iter, win, written >>

getRaw(p, K) ==
    /\ \E k \in K : Atomic(p, "getRaw", k, Knowing(ReadOutcome(RawFile(k)), RawTag(k)))
    /\ UNCHANGED << dirs, files, mode, iter, win, written >>

(***************************************************************************)
(* has                                                                     *)
(***************************************************************************)
\* a has without the catch: the error of fsAccess reaches the caller
has_Throws(p, K) ==
    /\ \E k \in K :
          Atomic(p, "has", k,
                 Knowing([NoRet EXCEPT !.status = IF Access(Enc[k].file, F_OK) THEN "ok" ELSE "ENOENT",
                                       !.found = Access(Enc[k].file, F_OK)], k))
    /\ UNCHANGED << dirs, files, mode, iter, win, written >>

has(p, K) ==
    /\ \E k \in K :
          Atomic(p, "has", k, Knowing([NoRet EXCEPT !.status = "ok",
                                                    !.found = Access(Enc[k].file, F_OK)], k))
    /\ UNCHANGED << dirs, files, mode, iter, win, written >>

(***************************************************************************)
(* delete                                                                  *)
(***************************************************************************)
\* the outcome of fsUnlink(file) as delete maps it: ENOENT is success
UnlinkStatus(file) ==
    IF IsFile(file) THEN "ok"
    ELSE IF IsDir(file) \/ NotDir(file) THEN "DeleteFailed"
    ELSE "ok"

\* a delete that returns without removing the file
delete_NoUnlink(p, K) ==
    /\ \E k \in K :
          LET file == Enc[k].file
          IN  /\ Atomic(p, "delete", k, Knowing([NoRet EXCEPT !.status = UnlinkStatus(file),
                                                              !.found = IsFile(file)], k))
              /\ win' = [win EXCEPT ![k] =
                           WinReturn(p, k, WinCall(p, "delete", k, {}),
                                     UnlinkStatus(file) = "ok")]
    /\ UNCHANGED << dirs, files, mode, iter, written >>

\* a delete that removes the extension-less file of the key as well
delete_RemovesRaw(p, K) ==
    /\ \E k \in K :
          LET file == Enc[k].file
              gone == {file, RawFile(k)} \cap DOMAIN files
          IN  /\ files' = [ f \in DOMAIN files \ gone |-> files[f] ]
              /\ mode' = [ f \in DOMAIN files \ gone |-> mode[f] ]
              /\ iter' = IF IsFile(file) THEN Disturb(p) ELSE iter
              /\ Atomic(p, "delete", k, Knowing([NoRet EXCEPT !.status = UnlinkStatus(file),
                                                              !.found = IsFile(file)], k))
              /\ win' = [win EXCEPT ![k] =
                           WinReturn(p, k, WinCall(p, "delete", k, {}),
                                     UnlinkStatus(file) = "ok")]
    /\ UNCHANGED << dirs, written >>

delete(p, K) ==
    /\ \E k \in K :
          LET file == Enc[k].file
          IN  /\ files' = IF IsFile(file) THEN Without(files, file) ELSE files
              /\ mode' = IF IsFile(file) THEN Without(mode, file) ELSE mode
              /\ iter' = IF IsFile(file) THEN Disturb(p) ELSE iter
              /\ Atomic(p, "delete", k, Knowing([NoRet EXCEPT !.status = UnlinkStatus(file),
                                                              !.found = IsFile(file)], k))
              /\ win' = [win EXCEPT ![k] =
                           WinReturn(p, k, WinCall(p, "delete", k, {}),
                                     UnlinkStatus(file) = "ok")]
    /\ UNCHANGED << dirs, written >>

(***************************************************************************)
(* query: the generator _all.  Its body runs when the consumer asks for    *)
(* the first entry (glob), and map reads one file per entry asked for.     *)
(***************************************************************************)
query(p) ==
    /\ \E pre \in Prefixes, ko \in BOOLEAN :
          Invoke(p, [NoCall EXCEPT !.op = "query", !.prefix = pre, !.keysOnly = ko,
                                   !.atcall = GlobOf(pre)], "glob")
    /\ UNCHANGED << dirs, files, mode, iter, win, written >>

\* a snapshot that reads the file of every entry at once
glob_ReadsAhead(p) ==
    /\ pc[p] = "glob"
    /\ LET found == GlobOf(call[p].prefix)
       IN  iter' = [iter EXCEPT ![p] = [files |-> found, out |-> << >>, clean |-> TRUE,
                                        reads |-> IF call[p].keysOnly THEN 0 ELSE Len(found)]]
    /\ Goto(p, "next")
    /\ UNCHANGED << dirs, files, mode >>

glob(p) ==
    /\ pc[p] = "glob"
    /\ iter' = [iter EXCEPT ![p] = [files |-> GlobOf(call[p].prefix),
                                    out |-> << >>, clean |-> TRUE, reads |-> 0]]
    /\ Goto(p, "next")
    /\ UNCHANGED << dirs, files, mode >>

\* the sequence ends: by its end, by an error, or because the consumer stops
QueryReturn(p, status, reads) ==
    /\ Return(p, [NoRet EXCEPT !.status = status, !.out = iter[p].out,
                               !.clean = iter[p].clean,
                               !.reads = reads,
                               !.val = call[p].prefix,
                               !.found = call[p].keysOnly])
    /\ iter' = [iter EXCEPT ![p] = NoIter]

\* a generator step that reads the file of every entry, keysOnly or not
next_AlwaysReads(p) ==
    /\ pc[p] = "next"
    /\ IF iter[p].files = << >>
       THEN QueryReturn(p, "ok", iter[p].reads)
       ELSE LET f == Head(iter[p].files)
                reads == iter[p].reads + 1
            IN  IF ~CanRead(f)
                THEN QueryReturn(p, IF IsFile(f) THEN "EACCES" ELSE "ENOENT", reads)
                ELSE IF Decoded(f) = InvalidExtension
                THEN QueryReturn(p, "InvalidExtension", reads)
                ELSE /\ iter' = [iter EXCEPT ![p] =
                                   [@ EXCEPT !.files = Tail(@),
                                             !.reads = reads,
                                             !.out = Append(@,
                                                IF call[p].keysOnly
                                                THEN [key |-> Decoded(f)]
                                                ELSE [key |-> Decoded(f), value |-> files[f]])]]
                     /\ Goto(p, "next")
    /\ UNCHANGED << dirs, files, mode >>

next(p) ==
    /\ pc[p] = "next"
    /\ IF iter[p].files = << >>
       THEN QueryReturn(p, "ok", iter[p].reads)
       ELSE LET f == Head(iter[p].files)
                reads == IF call[p].keysOnly THEN iter[p].reads ELSE iter[p].reads + 1
            IN  IF ~call[p].keysOnly /\ ~CanRead(f)
                THEN QueryReturn(p, IF IsFile(f) THEN "EACCES" ELSE "ENOENT", reads)
                ELSE IF Decoded(f) = InvalidExtension
                THEN QueryReturn(p, "InvalidExtension", reads)
                ELSE /\ iter' = [iter EXCEPT ![p] =
                                   [@ EXCEPT !.files = Tail(@),
                                             !.reads = reads,
                                             !.out = Append(@,
                                                IF call[p].keysOnly
                                                THEN [key |-> Decoded(f)]
                                                ELSE [key |-> Decoded(f), value |-> files[f]])]]
                     /\ Goto(p, "next")
    /\ UNCHANGED << dirs, files, mode >>

\* the consumer stops asking before the end of the sequence
stop(p) ==
    /\ pc[p] = "next"
    /\ iter[p].files # << >>
    /\ QueryReturn(p, "stopped", iter[p].reads)
    /\ UNCHANGED << dirs, files, mode >>

(***************************************************************************)
(* Spec: two callers use put, get, has, delete and open.                   *)
(***************************************************************************)
Next ==
    \E p \in Procs :
        \/ open(p)
        \/ put(p, Keys)
        \/ mkdirp(p) \/ tmpopen(p) \/ tmpwrite(p) \/ rename(p) \/ fsAccess(p)
        \/ get(p, Keys)
        \/ has(p, Keys)
        \/ delete(p, Keys)

Spec == Init /\ [][Next]_vars

(***************************************************************************)
(* SpecQuery: two callers query the store, put, putRaw, get and delete.    *)
(***************************************************************************)
NextQuery ==
    \E p \in Procs :
        \/ query(p) \/ glob(p) \/ next(p) \/ stop(p)
        \/ put(p, QueryKeys) \/ putRaw(p, RawKeys)
        \/ mkdirp(p) \/ tmpopen(p) \/ tmpwrite(p) \/ rename(p) \/ fsAccess(p)
        \/ get(p, QueryKeys)
        \/ delete(p, QueryKeys)

SpecQuery == InitQuery /\ [][NextQuery]_vars

\* SpecQueryFair: the callers query the store while put calls add keys, and
\* the consumer of a query keeps requesting entries: the generator of a
\* query in progress takes its next step
NextQueryFair ==
    \E p \in Procs :
        \/ query(p) \/ glob(p) \/ next(p) \/ stop(p)
        \/ put(p, QueryKeys)
        \/ mkdirp(p) \/ tmpopen(p) \/ tmpwrite(p) \/ rename(p) \/ fsAccess(p)

SpecQueryFair ==
    /\ InitQuery
    /\ [][NextQueryFair]_vars
    /\ \A p \in Procs : WF_vars(glob(p)) /\ WF_vars(next(p))

(***************************************************************************)
(* SpecRaw: two callers work on both artifacts of a key, the file with     *)
(* the extension and the file without.                                     *)
(***************************************************************************)
NextRaw ==
    \E p \in Procs :
        \/ putRaw(p, RawKeys) \/ put(p, RawKeys)
        \/ mkdirp(p) \/ tmpopen(p) \/ tmpwrite(p) \/ rename(p) \/ fsAccess(p)
        \/ getRaw(p, RawKeys) \/ get(p, RawKeys)
        \/ has(p, RawKeys)
        \/ delete(p, RawKeys)

SpecRaw == InitRaw /\ [][NextRaw]_vars

(***************************************************************************)
(* SpecCodec: the callers encode a key of the namespace and decode the     *)
(* file they got.                                                          *)
(***************************************************************************)
\* the segments of the keys, one of them ending in the extension
Segs == {"a", "a.data"}

\* the keys of n segments
RECURSIVE KeysOfLen(_)
KeysOfLen(n) ==
    IF n = 0 THEN {""}
    ELSE { k \o "/" \o seg : k \in KeysOfLen(n - 1), seg \in Segs }

\* the namespace: the root key and the keys of up to MaxSegs segments
CodecKeys == {"/"} \cup UNION { KeysOfLen(n) : n \in 1..MaxSegs }

codec(p) ==
    /\ \E k \in CodecKeys :
          Invoke(p, [NoCall EXCEPT !.op = "codec", !.key = k], "_encode")
    /\ UNCHANGED << dirs, files, mode, iter, win, written >>

\* _encode(key); the file it returns is kept for _decode
encode(p) ==
    /\ pc[p] = "_encode"
    /\ iter' = [iter EXCEPT ![p] = [NoIter EXCEPT !.files = << _encode(call[p].key).file >>]]
    /\ Goto(p, "_decode")
    /\ UNCHANGED << dirs, files, mode >>

\* _decode(file): the key, or the error it throws
decode(p) ==
    /\ pc[p] = "_decode"
    /\ LET f == Head(iter[p].files)
           k == _decode(f)
       IN  Return(p, [NoRet EXCEPT
                        !.status = IF k = InvalidExtension THEN "InvalidExtension" ELSE "ok",
                        !.val = f,
                        !.out = IF k = InvalidExtension THEN << >> ELSE << [key |-> k] >>])
    /\ iter' = [iter EXCEPT ![p] = NoIter]
    /\ UNCHANGED << dirs, files, mode >>

InitCodec == InitWith(EmptyStore, DefaultOpts)

NextCodec == \E p \in Procs : codec(p) \/ encode(p) \/ decode(p)

SpecCodec == InitCodec /\ [][NextCodec]_vars

(***************************************************************************)
(* SpecPair: each caller works on keys of its own, so that every two       *)
(* operations in progress are on different keys.                           *)
(***************************************************************************)
\* siblings below a common parent for the two callers, and for one a key
\* with a segment that ends in the extension
OwnKeys(p) == IF p = "p1" THEN {"/a/b", "/a.data/b"} ELSE {"/a/c", "/a"}

PairStores ==
    { [root |-> TRUE, keys |-> {"/a/b", "/a/c"}, raw |-> {}, foreign |-> {}, access |-> {}] }

InitPair ==
    \E store \in {NoRoot, EmptyStore} \cup PairStores : InitWith(store, DefaultOpts)

NextPair ==
    \E p \in Procs :
        \/ put(p, OwnKeys(p))
        \/ mkdirp(p) \/ tmpopen(p) \/ tmpwrite(p) \/ rename(p) \/ fsAccess(p)
        \/ get(p, OwnKeys(p))
        \/ has(p, OwnKeys(p))
        \/ delete(p, OwnKeys(p))

SpecPair == InitPair /\ [][NextPair]_vars

(***************************************************************************)
(* Properties.                                                             *)
(***************************************************************************)
\* caller p completes an operation op in this step
Completes(p, op) == ret'[p].seq # ret[p].seq /\ ret'[p].op = op

\* the other caller
Other(p) == CHOOSE q \in Procs : q # p

\* C1: round trip.  A get of key k that follows a successful put(k, v),
\* with no other put or delete of k since that put was called, returns
\* exactly v.
C1_RoundTrip ==
    \A p \in Procs :
        (ret[p].op = "get" /\ ret[p].pre = "put")
            => (ret[p].status = "ok" /\ ret[p].vals = {ret[p].val})

C3_AbsentNotFound ==
    \A p \in Procs :
        (ret[p].op = "get" /\ ret[p].pre \in {"never", "deleted"})
            => (ret[p].status = "NotFound" /\ ret[p].val = << >>)

\* get failed with NotFound for a key that held a value and that the other
\* caller deleted before
C3_Witness ==
    \E p \in Procs :
        /\ ret[p].op = "get" /\ ret[p].pre = "deleted" /\ ret[p].status = "NotFound"
        /\ ret[Other(p)].op = "delete" /\ ret[Other(p)].key = ret[p].key
        /\ ret[Other(p)].found /\ ret[Other(p)].status = "ok"

\* C4: delete is idempotent.  delete(k) of a key whose file does not exist
\* returns successfully and leaves directories and files as they are.
C4_DeleteIdempotent ==
    [][ \A p \in Procs :
          (Completes(p, "delete") /\ ~IsFile(Enc[ret'[p].key].file))
              => (ret'[p].status = "ok" /\ UNCHANGED << dirs, files >>) ]_vars

\* C5: has never fails and never changes the store: it returns a boolean,
\* which is false whenever the file of the key cannot be accessed.
C5_HasTotal ==
    [][ \A p \in Procs :
          Completes(p, "has")
              => /\ ret'[p].status = "ok"
                 /\ ret'[p].found \in BOOLEAN
                 /\ ~IsFile(Enc[ret'[p].key].file) => ~ret'[p].found
                 /\ UNCHANGED << dirs, files >> ]_vars

\* has answered false where the directory of the key does not exist, and
\* where a component of the path is a regular file
C5_Witness ==
    /\ \E p \in Procs :
          /\ ret[p].op = "has" /\ ~ret[p].found
          /\ \/ ~IsDir(Enc[ret[p].key].dir)
             \/ NotDir(Enc[ret[p].key].file)

\* C6: open fails with DBOpenFailed when errorIfExists is set and the root
\* exists, with NotFound when the root is absent and createIfMissing is
\* false, and succeeds otherwise, creating the root if and only if it was
\* absent; a failing open leaves the file system as it is.
C6_Open ==
    [][ \A p \in Procs :
          Completes(p, "open")
              => /\ ret'[p].status =
                       IF IsDir(root) /\ opts.errorIfExists THEN "DBOpenFailed"
                       ELSE IF ~IsDir(root) /\ ~opts.createIfMissing THEN "NotFound"
                       ELSE "ok"
                 /\ files' = files
                 /\ ret'[p].status = "ok" =>
                       /\ root \in dirs'
                       /\ dirs' = IF IsDir(root) THEN dirs ELSE dirs \cup {root}
                 /\ ret'[p].status # "ok" => dirs' = dirs ]_vars

\* open created a missing root although errorIfExists is set
C6_Witness ==
    \E p \in Procs :
        /\ ret[p].op = "open" /\ ret[p].status = "ok" /\ ~ret[p].found
        /\ opts.errorIfExists /\ opts.createIfMissing
        /\ root \in dirs

\* C7: two concurrent put(k, v1) and put(k, v2) that both return
\* successfully leave the file of k in existence, holding v1 or v2.
C7_ConcurrentPut ==
    \A k \in Keys :
        (win[k].st = "done" /\ win[k].ops = {"put"} /\ win[k].n = 2 /\ win[k].ok)
            => (IsFile(Enc[k].file) /\ files[Enc[k].file] \in win[k].vals)

\* C8: no partial value is observable.  A get returns NotFound or a value
\* that some put of the key was given (or that the key held from the
\* start), and every value a query yields is such a value of its key, also
\* while puts of the key are in progress.
Complete(k, v) == v \in written[k]

EntriesComplete(out) ==
    \A i \in 1..Len(out) :
        "value" \in DOMAIN out[i] => Complete(out[i].key, out[i].value)

C8_NoPartial ==
    \A p \in Procs :
        /\ ret[p].op = "get" =>
              \/ ret[p].status = "ok" /\ Complete(ret[p].key, ret[p].val)
              \/ ret[p].status = "NotFound" /\ ret[p].val = << >>
        /\ EntriesComplete(iter[p].out)
        /\ EntriesComplete(ret[p].out)

\* a get returned the old value of a key while the other caller's put of
\* another value was writing its temporary file
C8_Witness ==
    \E p \in Procs :
        /\ ret[p].op = "get" /\ ret[p].status = "ok" /\ ret[p].seq = nops
        /\ call[Other(p)].op = "put" /\ call[Other(p)].key = ret[p].key
        /\ pc[Other(p)] = "tmpwrite"
        /\ call[Other(p)].val # ret[p].val

\* the keys of the entries of a query, in the order of the sequence
EntryKeys(out) == [ i \in 1..Len(out) |-> out[i].key ]

NoDuplicates(seq) == \A i, j \in 1..Len(seq) : seq[i] = seq[j] => i = j

Range(seq) == { seq[i] : i \in 1..Len(seq) }

\* the keys whose file exists
Present == { k \in AllKeys : IsFile(Enc[k].file) }

\* the present keys below the segment sequence prefix, at every depth
Beneath(prefix) == { k \in Present : StartsWith(k, prefix \o "/") }

\* a query of caller p reaches the end of its sequence, or an error, in
\* this step, and no put or delete changed a file since its snapshot
QueryEnds(p) ==
    /\ Completes(p, "query")
    /\ ret'[p].status # "stopped"
    /\ ret'[p].clean

\* C9: prefix filtering.  With no concurrent mutation a query with prefix
\* p yields exactly the present keys beneath p, at every depth, each once.
C9_PrefixQuery ==
    [][ \A p \in Procs :
          (QueryEnds(p) /\ call[p].prefix # "")
              => /\ ret'[p].status = "ok"
                 /\ NoDuplicates(EntryKeys(ret'[p].out))
                 /\ Range(EntryKeys(ret'[p].out)) = Beneath(call[p].prefix) ]_vars

\* C10: with no concurrent mutation a query without prefix yields exactly
\* the present keys, at every depth, each once, with the value get would
\* return unless keysOnly is set, and nothing for a file without the
\* extension.
C10_FullQuery ==
    [][ \A p \in Procs :
          (QueryEnds(p) /\ call[p].prefix = "")
              => /\ ret'[p].status = "ok"
                 /\ NoDuplicates(EntryKeys(ret'[p].out))
                 /\ Range(EntryKeys(ret'[p].out)) = Present
                 /\ \A i \in 1..Len(ret'[p].out) :
                       LET e == ret'[p].out[i]
                       IN  IF call[p].keysOnly
                           THEN DOMAIN e = {"key"}
                           ELSE e.value = files[Enc[e.key].file] ]_vars

\* every entry of the sequence carries a key and nothing else
BareKeys(out) == \A i \in 1..Len(out) : DOMAIN out[i] = {"key"}

\* C11: keysOnly mode.  A query with keysOnly set yields entries that carry
\* a key and no value, reads no file at any step, and never ends in an
\* error, also where a file of its snapshot was deleted in the meantime.
C11_KeysOnly ==
    \A p \in Procs :
        /\ (call[p].op = "query" /\ call[p].keysOnly)
              => (iter[p].reads = 0 /\ BareKeys(iter[p].out))
        /\ (ret[p].op = "query" /\ ret[p].found)
              => /\ ret[p].reads = 0
                 /\ BareKeys(ret[p].out)
                 /\ ret[p].status \in {"ok", "stopped"}

\* a keysOnly query reached the end of its sequence and yielded the key of
\* a file that was deleted after the snapshot
C11_Witness ==
    \E p \in Procs :
        /\ ret[p].op = "query" /\ ret[p].found /\ ret[p].status = "ok"
        /\ ~ret[p].clean
        /\ \E i \in 1..Len(ret[p].out) : ~IsFile(Enc[ret[p].out[i].key].file)

\* C12: every failure of put reaches the caller as WriteFailed wrapping its
\* cause, whether mkdirp, the atomic write or the access check after EPERM
\* failed; put ends in success or in WriteFailed, never in another error.
C12_PutWriteFailed ==
    \A p \in Procs :
        ret[p].op = "put" =>
            /\ ret[p].status \in {"ok", "WriteFailed"}
            /\ ret[p].status = "WriteFailed" <=> ret[p].cause # "none"

\* a put failed with WriteFailed because the access check after EPERM did
\* not find the file, which the other caller had deleted
C12_Witness ==
    \E p \in Procs :
        /\ ret[p].op = "put" /\ ret[p].status = "WriteFailed" /\ ret[p].cause = "ENOENT"
        /\ ret[Other(p)].op = "delete" /\ ret[Other(p)].key = ret[p].key
        /\ ret[Other(p)].found

\* C13: putRaw and getRaw behave on the extension-less file as put and get
\* do on the file of the key.  A getRaw that follows a successful putRaw(k, v),
\* with no other putRaw of k since that call began, returns exactly v; a
\* getRaw of a key that was never given to putRaw fails with NotFound; and
\* putRaw ends in success or in WriteFailed, never in another error.
C13_RawSemantics ==
    \A p \in Procs :
        /\ (ret[p].op = "getRaw" /\ ret[p].pre = "put")
              => (ret[p].status = "ok" /\ ret[p].vals = {ret[p].val})
        /\ (ret[p].op = "getRaw" /\ ret[p].pre = "never")
              => (ret[p].status = "NotFound" /\ ret[p].val = << >>)
        /\ ret[p].op = "putRaw" => ret[p].status \in {"ok", "WriteFailed"}

\* C14: codec inverse.  Decoding the file that _encode gives for a key
\* returns this key, for every key of the namespace, the root key included;
\* and two different keys are never encoded as the same file.
C14_CodecInverse ==
    \A p \in Procs :
        ret[p].op = "codec" =>
            /\ ret[p].status = "ok"
            /\ ret[p].out = << [key |-> ret[p].key] >>
            /\ \A q \in Procs :
                  (ret[q].op = "codec" /\ ret[q].key # ret[p].key)
                      => ret[q].val # ret[p].val

\* C15: race resolution.  The access check that follows an EPERM of the
\* rename makes the write succeed if and only if the destination exists and
\* may be read and written at that moment, and then the write leaves every
\* file as it is; where the check fails the write fails; and no other step
\* of the write leads to the check: its error ends the write as a failure.
C15_RaceResolution ==
    [][ \A p \in Procs :
          /\ (pc[p] = "fsAccess" /\ pc'[p] # "fsAccess")
                => /\ pc'[p] = "idle"
                   /\ ret'[p].status = "ok"
                         <=> Access(Target(call[p]), BitOr(R_OK, W_OK))
                   /\ ret'[p].status = "ok" => files' = files
                   /\ ret'[p].status # "ok" => ret'[p].cause # "none"
          /\ (pc[p] \in {"mkdirp", "tmpopen", "tmpwrite"}) => pc'[p] # "fsAccess"
          /\ (pc[p] \in {"mkdirp", "rename"} /\ pc'[p] = "idle" /\ ret'[p].cause # "none")
                => ret'[p].status # "ok" ]_vars

\* the keys of the files that matched the pattern when the query was called
KeysAtCall(p) == { Decoded(f) : f \in Range(call[p].atcall) }

\* C16: the snapshot is taken when query is called.  A query yields only
\* keys whose file existed at the call, also where a key was put between
\* the call and the request of the first entry; and a keysOnly query that is
\* consumed to its end yields every key whose file existed at the call,
\* also where a key was deleted before the first entry was requested.
C16_SnapshotAtCall ==
    [][ \A p \in Procs :
          Completes(p, "query")
              => /\ Range(EntryKeys(ret'[p].out)) \subseteq KeysAtCall(p)
                 /\ (call[p].keysOnly /\ ret'[p].status = "ok")
                       => Range(EntryKeys(ret'[p].out)) = KeysAtCall(p) ]_vars

\* caller p requests the next entry of its query in this step, or stops
Advances(p) ==
    /\ pc[p] = "next"
    /\ pc'[p] = "idle" \/ iter'[p].out # iter[p].out

\* C17: lazy reads and errors of a query with values.  The files read are
\* those of the entries requested, one per request and none ahead; a
\* request whose file cannot be read ends the sequence with the error, after
\* every earlier entry was delivered with its value; a request whose file
\* can be read delivers the entry; and a consumer that stops gets no error.
C17_LazyReads ==
    [][ \A p \in Procs :
          (call[p].op = "query" /\ ~call[p].keysOnly) =>
              /\ pc'[p] = "next" => iter'[p].reads = Len(iter'[p].out)
              /\ (Advances(p) /\ pc'[p] = "next")
                    => /\ CanRead(Head(iter[p].files))
                       /\ iter'[p].out = Append(iter[p].out,
                                                [key |-> Decoded(Head(iter[p].files)),
                                                 value |-> files[Head(iter[p].files)]])
              /\ (Advances(p) /\ pc'[p] = "idle")
                    => /\ ret'[p].out = iter[p].out
                       /\ \A i \in 1..Len(ret'[p].out) : "value" \in DOMAIN ret'[p].out[i]
                       /\ ret'[p].status = "ok"
                             => (iter[p].files = << >> /\ ret'[p].reads = Len(ret'[p].out))
                       /\ ret'[p].status = "stopped"
                             => ret'[p].reads = Len(ret'[p].out)
                       /\ ret'[p].status \notin {"ok", "stopped"}
                             => /\ iter[p].files # << >>
                                /\ ~CanRead(Head(iter[p].files))
                                /\ ret'[p].reads = Len(ret'[p].out) + 1 ]_vars

\* a query with values delivered an entry and then ended with the error of
\* reading the next file, which the other caller had deleted after the
\* snapshot
C17_Witness ==
    \E p \in Procs :
        /\ ret[p].op = "query" /\ ~ret[p].found
        /\ ret[p].status = "ENOENT"
        /\ Len(ret[p].out) >= 1
        /\ ret[Other(p)].op = "delete" /\ ret[Other(p)].found

\* C18: a query sequence is finite and forward-only.  A query in progress
\* whose consumer keeps requesting entries ends, also while put calls add
\* keys; each request consumes one file of the snapshot, which never grows;
\* and a query takes its snapshot from the files that exist then, whatever
\* earlier queries consumed.
C18_Finite ==
    /\ \A p \in Procs : (pc[p] \in {"glob", "next"}) ~> (pc[p] = "idle")
    /\ [][ \A p \in Procs :
             /\ (pc[p] = "next" /\ pc'[p] = "next")
                   => \/ /\ iter'[p].files = iter[p].files
                         /\ iter'[p].out = iter[p].out
                      \/ /\ iter[p].files # << >>
                         /\ iter'[p].files = Tail(iter[p].files)
                         /\ Len(iter'[p].out) = Len(iter[p].out) + 1
             /\ (pc[p] = "glob" /\ pc'[p] = "next")
                   => /\ iter'[p].files = Glob(Pattern(call[p].prefix))
                      /\ iter'[p].out = << >> ]_vars

\* a query that delivered an entry reached the end of its sequence although
\* the other caller put a key, which it did not yield, after its snapshot
C18_Witness ==
    \E p \in Procs :
        /\ ret[p].op = "query" /\ ret[p].status = "ok" /\ ~ret[p].clean
        /\ Len(ret[p].out) >= 1
        /\ ret[Other(p)].op = "put" /\ ret[Other(p)].status = "ok"
        /\ ret[Other(p)].key \notin Range(EntryKeys(ret[p].out))

\* caller p takes this step, and the key of the operation it belongs to
Acts(p) == pc'[p] # pc[p] \/ ret'[p] # ret[p]

ActKey(p) ==
    IF call[p].op # "none" THEN call[p].key
    ELSE IF call'[p].op # "none" THEN call'[p].key
    ELSE ret'[p].key

\* C19: operations on different keys are independent.  A step of put,
\* delete, get or has on a key leaves every other key as it is: what has
\* answers for it and what get returns for it; and with all operations in
\* progress being on different keys, every put succeeds and stores its
\* file and every delete succeeds, also where two puts create a common
\* parent directory.
C19_Independence ==
    [][ \A p \in Procs :
          Acts(p) =>
              /\ \A k2 \in AllKeys \ {ActKey(p)} :
                    LET f2 == Enc[k2].file
                    IN  /\ Access(f2, F_OK)' = Access(f2, F_OK)
                        /\ CanRead(f2)' = CanRead(f2)
                        /\ CanRead(f2) => files'[f2] = files[f2]
              /\ Completes(p, "put")
                    => (ret'[p].status = "ok" /\ Enc[ret'[p].key].file \in DOMAIN files')
              /\ Completes(p, "delete")
                    => (ret'[p].status = "ok" /\ Enc[ret'[p].key].file \notin DOMAIN files') ]_vars

\* the step leaves the file f as it is: its existence, its permissions and
\* its content
Untouched(f) ==
    /\ (f \in DOMAIN files') = (f \in DOMAIN files)
    /\ f \in DOMAIN files => (files'[f] = files[f] /\ mode'[f] = mode[f])

\* C20: the two artifacts of a key are separate.  A step of putRaw(k, v)
\* changes no file but the extension-less file of k and its temporary file,
\* so that has(k) and get(k) give the same result before and after it; and
\* a step of put(k, v) or of delete(k) leaves the extension-less file of k
\* as it is, so that getRaw(k) gives the same result.
C20_Separate ==
    [][ \A p \in Procs :
          /\ (Acts(p) /\ call[p].op = "putRaw")
                => /\ Untouched(Enc[call[p].key].file)
                   /\ \A f \in (DOMAIN files \cup DOMAIN files')
                              \ {RawFile(call[p].key), TmpName(RawFile(call[p].key), p)} :
                         Untouched(f)
          /\ (Acts(p) /\ call[p].op = "put") => Untouched(RawFile(call[p].key))
          /\ Completes(p, "delete") => Untouched(RawFile(ret'[p].key)) ]_vars

\* a delete removed the file of a key whose extension-less file exists, and
\* a putRaw of this key by the other caller succeeded while the file of the
\* key existed
C20_Witness ==
    \E p \in Procs :
        /\ ret[p].op = "delete" /\ ret[p].found /\ ret[p].status = "ok"
        /\ IsFile(RawFile(ret[p].key))
        /\ ret[Other(p)].op = "putRaw" /\ ret[Other(p)].key = ret[p].key
        /\ ret[Other(p)].status = "ok"
        /\ ret[Other(p)].seq < ret[p].seq
====
